---- MODULE Spec2Model ----
(***************************************************************************)
(* Model of src/app.py (Alsos NeuroMatch): the /full_report, /parse_resume *)
(* and /ats_score handlers, call_json / ds_chat / repair_json_with_llm /   *)
(* load_json_strict, the ThreadPoolExecutor fan-out of full_report and the *)
(* process-wide CACHE.                                                     *)
(*                                                                         *)
(* Texts are tuples of one-character strings.  The remote generation       *)
(* service is the environment: each HTTP call gets a reply chosen from     *)
(* LLMReplies.                                                             *)
(***************************************************************************)
EXTENDS Integers, Sequences, FiniteSets, TLC

VARIABLES apiKey, CACHE, pc, req, futs, results, nCalls, response, served, fn

vars == <<apiKey, CACHE, pc, req, futs, results, nCalls, response, served, fn>>

(* ---------------------------- bounds ----------------------------------- *)
\* longest raw text a client sends in the model
MaxRawLen == 2
\* number of requests the server receives in a run of SpecReq
MaxRequests == 2

(* ---------------------------- constants -------------------------------- *)
\* full_report / parse_resume cut the resume at 25000 characters; the model
\* keeps the cut and scales the limit to the size of the model's texts
ResumeLimit == 1
\* ThreadPoolExecutor(max_workers=4)
max_workers == 4

\* request threads of the server (Flask serves each request on its own
\* thread); Spec and SpecReq run their requests one after the other on the
\* threads of SeqThreads
Threads == {1, 2}
SeqThreads == {1}

\* " " is whitespace, "V" stands for an executive-tier title word
Chars == {" ", "V"}
RawTexts == UNION {[1..n -> Chars] : n \in 0..MaxRawLen}
JdTexts == {<<>>, <<" ">>, <<"j">>}
Fields == {"resume_text", "jd_text"}

\* the JSON bodies a client may post: each field present or absent
Bodies ==
  UNION {{b \in [D -> RawTexts \cup JdTexts] :
            /\ ("resume_text" \in D => b["resume_text"] \in RawTexts)
            /\ ("jd_text" \in D => b["jd_text"] \in JdTexts)} : D \in SUBSET Fields}

Routes == {"full_report", "parse_resume", "ats_score"}
Sections == {"optimized", "qa", "advice", "ats"}
ResultKeys == {"parsed"} \cup Sections

(* ---------------------------- pure helpers ------------------------------ *)
\* (js.get(f) or "")
GetOrEmpty(js, f) == IF f \in DOMAIN js THEN js[f] ELSE <<>>

RECURSIVE LStrip(_)
LStrip(s) == IF s # <<>> /\ Head(s) = " " THEN LStrip(Tail(s)) ELSE s

RECURSIVE RStrip(_)
RStrip(s) ==
  IF s # <<>> /\ s[Len(s)] = " " THEN RStrip(SubSeq(s, 1, Len(s) - 1)) ELSE s

\* str.strip()
Strip(s) == RStrip(LStrip(s))

\* if len(text) > 25000: text = text[:25000]
Truncate(s) == IF Len(s) > ResumeLimit THEN SubSeq(s, 1, ResumeLimit) ELSE s

\* _sig over the payload of a route: the digest is modelled by the payload
\* itself (json.dumps with sort_keys is canonical; md5 collisions are ignored)
_sig(payload) == payload

\* cache key of full_report (lines 211-212); target_role, location and
\* industry are never sent in the model, so they are the empty string
FullReportKey(resume_text, jd_text) ==
  _sig([route |-> "full_report", resume_text |-> resume_text, target_role |-> <<>>,
       location |-> <<>>, jd_text |-> jd_text, industry |-> <<>>])

\* cache key of parse_resume (lines 97-98)
ParseResumeKey(text) ==
  _sig([route |-> "parse_resume", resume_text |-> text, target_role |-> <<>>,
       location |-> <<>>, jd_text |-> <<>>, industry |-> <<>>])

\* cache key of ats_score (lines 140-142); resume_struct and scoring_weights
\* are never sent in the model, so they are their defaults
AtsScoreKey(jd_text) ==
  _sig([route |-> "ats_score", resume_text |-> <<>>, target_role |-> <<>>,
       location |-> <<>>, jd_text |-> jd_text, industry |-> <<>>])

\* the request as the handler sees it after lines 203-212 / 94-98 / 139-142;
\* ats_score does not read resume_text and takes jd_text as it is sent
NewRequest(route, js) ==
  LET text == IF route = "ats_score" THEN <<>>
              ELSE Truncate(Strip(GetOrEmpty(js, "resume_text")))
      jd == IF route = "full_report" THEN Strip(GetOrEmpty(js, "jd_text"))
            ELSE IF route = "ats_score" THEN GetOrEmpty(js, "jd_text") ELSE <<>>
  IN [route |-> route, resume_text |-> text, jd_text |-> jd,
      cache_key |-> IF route = "full_report" THEN FullReportKey(text, jd)
                    ELSE IF route = "ats_score" THEN AtsScoreKey(jd)
                    ELSE ParseResumeKey(text)]

NoRequest ==
  [route |-> "-", resume_text |-> <<>>, jd_text |-> <<>>, cache_key |-> _sig([route |-> "-"])]

(* ---------------------------- values ------------------------------------ *)
\* JSON values held in results / futures / CACHE.  "by" is the section whose
\* call produced the value (a label of the model, not a field of the JSON).
Null == [tag |-> "null", by |-> "-", msg |-> "-"]
Json(k) == [tag |-> "json", by |-> k, msg |-> "-"]
\* a raised exception held by a future
Exc(k, m) == [tag |-> "exc", by |-> k, msg |-> m]
\* {"error": str(e)}
ErrorEntry(v) == [tag |-> "error", by |-> v.by, msg |-> v.msg]

(* ---------------------------- text functions ---------------------------- *)
\* A text the generation service returns is a tuple of characters.
\* "~" stands for the backquote character, which a TLA+ string cannot hold
Backtick == "~"
Quote == "\""
\* stands for one character of [\x00-\x08\x0B\x0C\x0E-\x1F]
Ctrl == "^A"
\* the characters \s and str.strip() take for whitespace
WS == {" ", "\n"}
Fence == <<Backtick, Backtick, Backtick>>

\* re.I on the letters of "json"
Lower(c) ==
  CASE c = "J" -> "j" [] c = "S" -> "s" [] c = "O" -> "o" [] c = "N" -> "n" [] OTHER -> c

\* s holds the characters of w from position i on, case ignored
At(s, i, w) ==
  /\ i + Len(w) - 1 <= Len(s)
  /\ \A j \in 1..Len(w) : Lower(s[i + j - 1]) = w[j]

RECURSIVE WsEnd(_, _)
\* \s* from position i: the first position that holds no whitespace
WsEnd(s, i) == IF i <= Len(s) /\ s[i] \in WS THEN WsEnd(s, i + 1) ELSE i

RECURSIVE WsStart(_, _)
WsStart(s, i) == IF i >= 1 /\ s[i] \in WS THEN WsStart(s, i - 1) ELSE i

\* text.strip() of a service text
StripWs(s) == SubSeq(s, WsEnd(s, 1), WsStart(s, Len(s)))

\* ^ and $ under re.M
LineStart(s, i) == i = 1 \/ s[i - 1] = "\n"
LineEnd(s, i) == i = Len(s) + 1 \/ s[i] = "\n"

\* end of the match of ^~~~(?:json)?\s* at position i, 0 when it does not match
OpenFenceEnd(s, i) ==
  IF LineStart(s, i) /\ At(s, i, Fence)
  THEN WsEnd(s, IF At(s, i + 3, <<"j", "s", "o", "n">>) THEN i + 7 ELSE i + 3)
  ELSE 0

\* end of the match of \s*~~~$ at position i, 0 when it does not match
CloseFenceEnd(s, i) ==
  LET j == WsEnd(s, i)
  IN IF At(s, j, Fence) /\ LineEnd(s, j + 3) THEN j + 3 ELSE 0

RECURSIVE SubFence(_, _)
\* re.sub(r"^~~~(?:json)?\s*|\s*~~~$", "", t, flags=re.I | re.M) from position
\* i on: the leftmost match is dropped and the scan goes on behind it
SubFence(s, i) ==
  IF i > Len(s) THEN <<>>
  ELSE LET e == IF OpenFenceEnd(s, i) # 0 THEN OpenFenceEnd(s, i) ELSE CloseFenceEnd(s, i)
       IN IF e # 0 THEN SubFence(s, e) ELSE <<s[i]>> \o SubFence(s, i + 1)

\* _strip_json_fence (lines 24-27)
_strip_json_fence(text) == SubFence(StripWs(text), 1)

FirstOf(s, c) ==
  IF \E i \in 1..Len(s) : s[i] = c
  THEN CHOOSE i \in 1..Len(s) : s[i] = c /\ \A j \in 1..(i - 1) : s[j] # c
  ELSE 0

LastOf(s, c) ==
  IF \E i \in 1..Len(s) : s[i] = c
  THEN CHOOSE i \in 1..Len(s) : s[i] = c /\ \A j \in (i + 1)..Len(s) : s[j] # c
  ELSE 0

\* m = re.search(r"\{.*\}", t, flags=re.S); if m: t = m.group(0)
SearchObject(s) ==
  LET a == FirstOf(s, "{")
      b == LastOf(s, "}")
  IN IF a # 0 /\ b > a THEN SubSeq(s, a, b) ELSE s

RECURSIVE SubTrailingComma(_, _)
\* re.sub(r",\s*([}\]])", r"\1", t) from position i on
SubTrailingComma(s, i) ==
  IF i > Len(s) THEN <<>>
  ELSE LET j == WsEnd(s, i + 1)
       IN IF s[i] = "," /\ j <= Len(s) /\ s[j] \in {"}", "]"}
          THEN <<s[j]>> \o SubTrailingComma(s, j + 1)
          ELSE <<s[i]>> \o SubTrailingComma(s, i + 1)

\* re.sub(r"[\x00-\x08\x0B\x0C\x0E-\x1F]", "", t)
SubControl(s) == SelectSeq(s, LAMBDA c : c # Ctrl)

\* json.loads on the JSON of the model: objects, arrays and strings without
\* escapes.  A value is <<"str", characters>>, <<"arr", values>> or
\* <<"obj", dict>>, a dict being a function from keys to values.
ParseOk(v, i) == [ok |-> TRUE, v |-> v, i |-> i]
ParseFail == [ok |-> FALSE, v |-> <<>>, i |-> 0]

\* d[k] = v of a dict: a repeated key keeps its last value
DictSet(d, k, v) == [x \in DOMAIN d \cup {k} |-> IF x = k THEN v ELSE d[x]]

RECURSIVE StringEnd(_, _)
\* the quote that ends the string whose content starts at i; 0 when the text
\* ends or a control character comes before it
StringEnd(s, i) ==
  IF i > Len(s) \/ s[i] \in {"\n", Ctrl} THEN 0
  ELSE IF s[i] = Quote THEN i ELSE StringEnd(s, i + 1)

ParseString(s, i) ==
  LET e == StringEnd(s, i + 1)
  IN IF e = 0 THEN ParseFail ELSE ParseOk(<<"str", SubSeq(s, i + 1, e - 1)>>, e + 1)

RECURSIVE ParseValue(_, _)
RECURSIVE ParseMembers(_, _, _)
RECURSIVE ParseItems(_, _, _)

ParseValue(s, i0) ==
  LET i == WsEnd(s, i0)
      j == WsEnd(s, i + 1)
  IN IF i > Len(s) THEN ParseFail
     ELSE IF s[i] = Quote THEN ParseString(s, i)
     ELSE IF s[i] = "{"
          THEN IF j <= Len(s) /\ s[j] = "}" THEN ParseOk(<<"obj", <<>>>>, j + 1)
               ELSE ParseMembers(s, j, <<>>)
     ELSE IF s[i] = "["
          THEN IF j <= Len(s) /\ s[j] = "]" THEN ParseOk(<<"arr", <<>>>>, j + 1)
               ELSE ParseItems(s, j, <<>>)
     ELSE ParseFail

\* the members of an object from the key at position i on, d holding the
\* members read so far
ParseMembers(s, i, d) ==
  IF i > Len(s) \/ s[i] # Quote THEN ParseFail
  ELSE LET k == ParseString(s, i)
           c == WsEnd(s, k.i)
           v == ParseValue(s, c + 1)
           n == WsEnd(s, v.i)
           d2 == DictSet(d, k.v[2], v.v)
       IN IF ~k.ok THEN ParseFail
          ELSE IF c > Len(s) \/ s[c] # ":" THEN ParseFail
          ELSE IF ~v.ok \/ n > Len(s) THEN ParseFail
          ELSE IF s[n] = "}" THEN ParseOk(<<"obj", d2>>, n + 1)
          ELSE IF s[n] = "," THEN ParseMembers(s, WsEnd(s, n + 1), d2)
          ELSE ParseFail

\* the items of an array from position i on, a holding the items read so far
ParseItems(s, i, a) ==
  LET v == ParseValue(s, i)
      n == WsEnd(s, v.i)
  IN IF ~v.ok \/ n > Len(s) THEN ParseFail
     ELSE IF s[n] = "]" THEN ParseOk(<<"arr", Append(a, v.v)>>, n + 1)
     ELSE IF s[n] = "," THEN ParseItems(s, n + 1, Append(a, v.v))
     ELSE ParseFail

\* what a function call gives: the value it returns, or raised
Returns(v) == [raised |-> FALSE, val |-> v]
Raises == [raised |-> TRUE, val |-> <<>>]

\* json.loads(t): one value, whitespace around it and nothing else
json_loads(s) ==
  LET v == ParseValue(s, 1)
  IN IF v.ok /\ WsEnd(s, v.i) > Len(s) THEN Returns(v.v) ELSE Raises

\* load_json_strict (lines 29-37)
load_json_strict(raw) ==
  json_loads(SubControl(SubTrailingComma(SearchObject(_strip_json_fence(raw)), 1)))

(* ---------------------------- the remote service ----------------------- *)
\* replies of the remote service to one HTTP call
LLMTexts == {"json", "fenced", "garbage"}
LLMReplies == {"timeout", "http_error", "bad_envelope"} \cup LLMTexts

\* the text each kind of content stands for: a JSON object, the same object
\* inside a code fence, and a text that holds no JSON
SampleObject == <<"{", Quote, "k", Quote, ":", Quote, "x", Quote, "}">>

TextOf(text) ==
  CASE text = "json" -> SampleObject
    [] text = "fenced" ->
         Fence \o <<"j", "s", "o", "n", "\n">> \o SampleObject \o <<"\n">> \o Fence
    [] text = "garbage" -> <<"x">>

ParsableTexts == {text \in LLMTexts : ~load_json_strict(TextOf(text)).raised}

\* load_json_strict succeeds on a JSON object, bare or inside a code fence
Parsable(text) == text \in ParsableTexts

\* The response to one requests.post.  arrived is FALSE when the post itself
\* raises (timeout, no connection); isjson is FALSE when r.json() raises; data
\* is the decoded body, a dict in which "choices", when present, holds the
\* message content of each choice.
HttpReply(arrived, status, isjson, data) ==
  [arrived |-> arrived, status |-> status, isjson |-> isjson, data |-> data]

Choices(contents) == [key \in {"choices"} |-> contents]

HttpReplies ==
  {HttpReply(FALSE, 0, FALSE, <<>>)}
    \cup {HttpReply(TRUE, st, FALSE, <<>>) : st \in {200, 500}}
    \cup {HttpReply(TRUE, st, TRUE, d) :
            st \in {200, 500},
            d \in {<<>>, Choices(<<>>)} \cup {Choices(<<c>>) : c \in LLMTexts}}

\* what ds_chat gives: the value it returns or raised, and the posts it made
DsResult(raised, val, posts) == [raised |-> raised, val |-> val, posts |-> posts]

\* a client that reads the content whatever the status of the response
ds_chatAnyStatus(key, r) ==
  IF ~key THEN DsResult(TRUE, "-", 0)
  ELSE IF ~r.arrived THEN DsResult(TRUE, "-", 1)
  ELSE IF ~r.isjson THEN DsResult(TRUE, "-", 1)
  ELSE IF "choices" \notin DOMAIN r.data \/ r.data["choices"] = <<>>
       THEN DsResult(TRUE, "-", 1)
  ELSE DsResult(FALSE, r.data["choices"][1], 1)

\* ds_chat (lines 65-79); key is whether DEEPSEEK_API_KEY is set
ds_chat(key, r) ==
  IF ~key THEN DsResult(TRUE, "-", 0)
  ELSE IF ~r.arrived THEN DsResult(TRUE, "-", 1)
  ELSE IF r.status # 200 THEN DsResult(TRUE, "-", 1)
  ELSE IF ~r.isjson THEN DsResult(TRUE, "-", 1)
  ELSE IF "choices" \notin DOMAIN r.data \/ r.data["choices"] = <<>>
       THEN DsResult(TRUE, "-", 1)
  ELSE DsResult(FALSE, r.data["choices"][1], 1)

\* the response each kind of reply stands for
Envelope(reply) ==
  CASE reply = "timeout" -> HttpReply(FALSE, 0, FALSE, <<>>)
    [] reply = "http_error" -> HttpReply(TRUE, 500, TRUE, <<>>)
    [] reply = "bad_envelope" -> HttpReply(TRUE, 200, TRUE, Choices(<<>>))
    [] OTHER -> HttpReply(TRUE, 200, TRUE, Choices(<<reply>>))

ReturningReplies == {reply \in LLMReplies : ~ds_chat(TRUE, Envelope(reply)).raised}

\* ds_chat returns the content of the reply, or raises
DsChatReturns(reply) == reply \in ReturningReplies

(* ---------------------------- function inputs --------------------------- *)
\* longest string value in the objects handed to load_json_strict
MaxStrLen == 2

StrChars == {"x", ",", "}", "]", " "}
Contents == UNION {[1..n -> StrChars] : n \in 0..MaxStrLen}

\* {"k":"<content>"}
ObjectOf(content) ==
  <<"{", Quote, "k", Quote, ":", Quote>> \o content \o <<Quote, "}">>

\* {}, {"k":["x","x"]} and { "k":{"k":"x"},<newline>"x":"x"}
MoreObjects ==
  { <<"{", "}">>,
    <<"{", Quote, "k", Quote, ":", "[", Quote, "x", Quote, ",", Quote, "x", Quote, "]", "}">>,
    <<"{", " ", Quote, "k", Quote, ":", "{", Quote, "k", Quote, ":", Quote, "x", Quote, "}",
      ",", "\n", Quote, "x", Quote, ":", Quote, "x", Quote, "}">> }

\* x, {"k":"x",}, {"k":"x" and ["x"]
OtherTexts ==
  { <<"x">>,
    <<"{", Quote, "k", Quote, ":", Quote, "x", Quote, ",", "}">>,
    <<"{", Quote, "k", Quote, ":", Quote, "x", Quote>>,
    <<"[", Quote, "x", Quote, "]">> }

\* the text is a JSON object as json.loads reads it
WellFormedObject(b) ==
  LET r == json_loads(b) IN ~r.raised /\ r.val[1] = "obj"

ObjectBodies == {b \in {ObjectOf(c) : c \in Contents} \cup MoreObjects : WellFormedObject(b)}

OpenFences ==
  { Fence \o <<"j", "s", "o", "n", "\n">>, Fence \o <<"\n">>,
    Fence \o <<"J", "S", "O", "N", "\n">>, Fence \o <<"j", "s", "o", "n">> }
CloseFences == { <<"\n">> \o Fence, Fence }

\* a text handed to load_json_strict, in its three parts
TextInputs ==
  {[open |-> o, body |-> b, close |-> c] :
      o \in OpenFences, b \in ObjectBodies, c \in CloseFences}
    \cup {[open |-> <<>>, body |-> b, close |-> <<>>] : b \in ObjectBodies \cup OtherTexts}

TextOfInput(a) == a.open \o a.body \o a.close

\* a call of a function on its own: op is "text" / "reply" while the input
\* waits and the name of the function once it has been applied
FnCall(op, arg, ret) == [op |-> op, arg |-> arg, ret |-> ret]
NoCall == FnCall("-", <<>>, <<>>)

\* repair_json_with_llm returns iff the call succeeds and its content parses
RepairReturns(reply) == reply \in LLMTexts /\ Parsable(reply)

\* results as initialised on line 268
InitialResults(parsed) ==
  [k \in ResultKeys |-> IF k = "parsed" THEN parsed ELSE Null]

NoResults == [k \in ResultKeys |-> Null]

\* a pool that is handed task_ats whether or not there is a job description
SubmitOrderAlways(jd_text) == <<"optimized", "qa", "advice", "ats">>

\* the order in which full_report submits its tasks (lines 270-271)
SubmitOrder(jd_text) ==
  IF jd_text # <<>> THEN <<"optimized", "qa", "advice", "ats">>
  ELSE <<"optimized", "qa", "advice">>

\* the tasks full_report submits
Tasks(jd_text) == {SubmitOrder(jd_text)[i] : i \in 1..Len(SubmitOrder(jd_text))}

Submitted(t) == {k \in Sections : futs[t][k].st # "none"}

\* the tasks a worker of the pool is running: submitted and not yet returned
\* (with at most max_workers tasks, submit finds or starts a worker at once)
Running(t) == {k \in Sections : futs[t][k].st \in {"primary", "repair"}}

\* a future of the pool with the state of the call_json of its task: st is
\* the position of the task, val the value returned or the exception raised,
\* out the text the primary call returned ("-" when it returned none) and
\* calls the number of HTTP calls the task has made
Fut(st, val, out, calls) == [st |-> st, val |-> val, out |-> out, calls |-> calls]

NoFuture == Fut("none", Null, "-", 0)
NoResponse == [code |-> 0, body |-> Null, cached |-> FALSE]

(* ---------------------------- initial state ----------------------------- *)
Init ==
  /\ apiKey \in BOOLEAN
  /\ CACHE = <<>>
  /\ pc = [t \in Threads |-> "idle"]
  /\ req = [t \in Threads |-> NoRequest]
  /\ futs = [t \in Threads |-> [k \in Sections |-> NoFuture]]
  /\ results = [t \in Threads |-> NoResults]
  /\ nCalls = [t \in Threads |-> 0]
  /\ response = [t \in Threads |-> NoResponse]
  /\ served = 0
  /\ fn = NoCall

\* a store that makes room by dropping the other entries, without a lock
CacheSetEvicting(cache, key, value) == [k \in {key} |-> value]

\* CACHE[key] = value
CacheSet(cache, key, value) ==
  [k \in DOMAIN cache \cup {key} |-> IF k = key THEN value ELSE cache[k]]

(* ---------------------------- handlers ---------------------------------- *)
\* return jsonify(...) of a handler: the one response of the request
Respond(t, code, body, cached) ==
  /\ response' = [response EXCEPT ![t] = [code |-> code, body |-> body, cached |-> cached]]
  /\ pc' = [pc EXCEPT ![t] = "done"]

\* except Exception as e: return jsonify({"error": str(e)}), 500
Fail(t, msg) == Respond(t, 500, ErrorEntry(Exc("request", msg)), FALSE)

\* a handler that never looks into CACHE
CacheHitNever(cache, key) == FALSE

\* if key in CACHE
CacheHit(cache, key) == key \in DOMAIN cache

\* Lines 203-213 (full_report) and 94-99 (parse_resume): read and normalise
\* the body, compute the key, answer from CACHE on a hit.
Receive(t, route, js) ==
  /\ pc[t] \in {"idle", "done"}
  /\ served' = served + 1
  /\ LET r == NewRequest(route, js) IN
       /\ req' = [req EXCEPT ![t] = r]
       /\ futs' = [futs EXCEPT ![t] = [k \in Sections |-> NoFuture]]
       /\ results' = [results EXCEPT ![t] = NoResults]
       /\ nCalls' = [nCalls EXCEPT ![t] = 0]
       /\ IF CacheHit(CACHE, r.cache_key)
          THEN Respond(t, 200, CACHE[r.cache_key], TRUE)
          ELSE /\ pc' = [pc EXCEPT ![t] = "call"]
               /\ response' = [response EXCEPT ![t] = NoResponse]
  /\ UNCHANGED <<fn, apiKey, CACHE>>

\* The first call_json of a handler has returned data (line 220 / line 108).
\* full_report goes on to build results and the pool; parse_resume and
\* ats_score (lines 153-155) store and return.
FirstCallReturned(t) ==
  IF req[t].route = "full_report"
  THEN /\ results' = [results EXCEPT ![t] = InitialResults(Json("parsed"))]
       /\ pc' = [pc EXCEPT ![t] = "submit"]
       /\ UNCHANGED <<CACHE, response>>
  ELSE /\ CACHE' = CacheSet(CACHE, req[t].cache_key, Json("parsed"))
       /\ Respond(t, 200, Json("parsed"), FALSE)
       /\ UNCHANGED results

\* Line 57 then 58-59 of call_json, for the handler's own (first) call:
\* ds_chat raises without a request when the key is missing, else posts one
\* request; its content is parsed, and an unparsable content leads to repair.
CallPrimary(t) ==
  /\ pc[t] = "call"
  /\ IF ~apiKey
     THEN /\ Fail(t, "nokey")
          /\ UNCHANGED <<CACHE, results, nCalls>>
     ELSE \E reply \in LLMReplies :
            /\ nCalls' = [nCalls EXCEPT ![t] = @ + 1]
            /\ IF ~DsChatReturns(reply)
               THEN Fail(t, "llm") /\ UNCHANGED <<CACHE, results>>
               ELSE IF Parsable(reply)
               THEN FirstCallReturned(t)
               ELSE /\ pc' = [pc EXCEPT ![t] = "call_repair"]
                    /\ UNCHANGED <<CACHE, results, response>>
  /\ UNCHANGED <<fn, apiKey, req, futs, served>>

\* Line 62 of call_json for the handler's own call: repair_json_with_llm
\* posts one request (it does not look at the API key) and parses the answer.
CallRepair(t) ==
  /\ pc[t] = "call_repair"
  /\ \E reply \in LLMReplies :
       /\ nCalls' = [nCalls EXCEPT ![t] = @ + 1]
       /\ IF RepairReturns(reply)
          THEN FirstCallReturned(t)
          ELSE Fail(t, "repair") /\ UNCHANGED <<CACHE, results>>
  /\ UNCHANGED <<fn, apiKey, req, futs, served>>

(* ---------------------------- fan-out ----------------------------------- *)
\* the next task full_report hands to the pool, 0 when all are submitted
NextToSubmit(t) ==
  LET order == SubmitOrder(req[t].jd_text)
      n == Cardinality(Submitted(t))
  IN IF n < Len(order) THEN order[n + 1] ELSE "-"

\* a pool that is opened before the resume has been parsed
SubmitAllowedEarly(t) == pc[t] \in {"call", "submit"}

\* full_report reaches the with-block of line 269 only after call_json of
\* line 215 has returned
SubmitAllowed(t) == pc[t] = "submit"

\* ex.submit(task): lines 270-271.  The pool has max_workers threads and at
\* most four tasks, so a submitted task starts at once.
Submit(t) ==
  /\ SubmitAllowed(t)
  /\ LET k == NextToSubmit(t) IN
       /\ k # "-"
       /\ futs' = [futs EXCEPT ![t][k] = Fut("primary", Null, "-", 0)]
       /\ pc' = [pc EXCEPT ![t] =
                   IF Cardinality(Submitted(t)) + 1 = Len(SubmitOrder(req[t].jd_text))
                   THEN "collect" ELSE "submit"]
  /\ UNCHANGED <<fn, apiKey, CACHE, req, results, nCalls, response, served>>

\* a call_json whose except clause also covers ds_chat: a primary call that
\* raised is followed by the repair call
TaskPrimaryRepairOnError(t, k) ==
  /\ futs[t][k].st = "primary"
  /\ IF ~apiKey
     THEN /\ futs' = [futs EXCEPT ![t][k] = Fut("done", Exc(k, "nokey"), "-", 0)]
          /\ UNCHANGED nCalls
     ELSE \E reply \in LLMReplies :
            /\ nCalls' = [nCalls EXCEPT ![t] = @ + 1]
            /\ futs' = [futs EXCEPT ![t][k] =
                 IF ~DsChatReturns(reply) THEN Fut("repair", Null, "-", 1)
                 ELSE IF Parsable(reply) THEN Fut("done", Json(k), reply, 1)
                 ELSE Fut("repair", Null, reply, 1)]
  /\ UNCHANGED <<fn, apiKey, CACHE, pc, req, results, response, served>>

\* A pool worker runs task k up to the end of the primary call of call_json
\* (task_ats returns None at once when there is no job description).
TaskPrimary(t, k) ==
  /\ futs[t][k].st = "primary"
  /\ IF k = "ats" /\ req[t].jd_text = <<>>
     THEN /\ futs' = [futs EXCEPT ![t][k] = Fut("done", Null, "-", 0)]
          /\ UNCHANGED nCalls
     ELSE IF ~apiKey
     THEN /\ futs' = [futs EXCEPT ![t][k] = Fut("done", Exc(k, "nokey"), "-", 0)]
          /\ UNCHANGED nCalls
     ELSE \E reply \in LLMReplies :
            /\ nCalls' = [nCalls EXCEPT ![t] = @ + 1]
            /\ futs' = [futs EXCEPT ![t][k] =
                 IF ~DsChatReturns(reply) THEN Fut("done", Exc(k, "llm"), "-", 1)
                 ELSE IF Parsable(reply) THEN Fut("done", Json(k), reply, 1)
                 ELSE Fut("repair", Null, reply, 1)]
  /\ UNCHANGED <<fn, apiKey, CACHE, pc, req, results, response, served>>

\* a repair whose failed answer is sent to repair again
TaskRepairAgain(t, k) ==
  /\ futs[t][k].st = "repair"
  /\ \E reply \in LLMReplies :
       /\ nCalls' = [nCalls EXCEPT ![t] = @ + 1]
       /\ futs' = [futs EXCEPT ![t][k] =
            IF RepairReturns(reply) THEN Fut("done", Json(k), @.out, @.calls + 1)
            ELSE IF reply \in LLMTexts THEN Fut("repair", Null, @.out, @.calls + 1)
            ELSE Fut("done", Exc(k, "repair"), @.out, @.calls + 1)]
  /\ UNCHANGED <<fn, apiKey, CACHE, pc, req, results, response, served>>

\* A pool worker runs the repair call of task k.
TaskRepair(t, k) ==
  /\ futs[t][k].st = "repair"
  /\ \E reply \in LLMReplies :
       /\ nCalls' = [nCalls EXCEPT ![t] = @ + 1]
       /\ futs' = [futs EXCEPT ![t][k] =
            IF RepairReturns(reply) THEN Fut("done", Json(k), @.out, @.calls + 1)
            ELSE Fut("done", Exc(k, "repair"), @.out, @.calls + 1)]
  /\ UNCHANGED <<fn, apiKey, CACHE, pc, req, results, response, served>>

\* f.result() inside try/except, lines 274-275
ResultOf(fut) == IF fut.val.tag = "exc" THEN ErrorEntry(fut.val) ELSE fut.val

\* the loop without its try/except: the exception of a task leaves the loop
\* and reaches the handler's except clause
CollectNoTry(t, k) ==
  /\ pc[t] = "collect"
  /\ futs[t][k].st = "done"
  /\ futs' = [futs EXCEPT ![t][k].st = "collected"]
  /\ IF futs[t][k].val.tag = "exc"
     THEN Fail(t, futs[t][k].val.msg) /\ UNCHANGED results
     ELSE /\ results' = [results EXCEPT ![t][k] = futs[t][k].val]
          /\ UNCHANGED <<pc, response>>
  /\ UNCHANGED <<fn, apiKey, CACHE, req, nCalls, served>>

\* the loop with "except: pass": the failure of a task is dropped
CollectSwallow(t, k) ==
  /\ pc[t] = "collect"
  /\ futs[t][k].st = "done"
  /\ futs' = [futs EXCEPT ![t][k].st = "collected"]
  /\ results' = [results EXCEPT ![t][k] =
       IF futs[t][k].val.tag = "exc" THEN Null ELSE futs[t][k].val]
  /\ UNCHANGED <<fn, apiKey, CACHE, pc, req, nCalls, response, served>>

\* a loop that files the outcome of a future under the key of any submitted
\* task
CollectAnyKey(t, k) ==
  /\ pc[t] = "collect"
  /\ futs[t][k].st = "done"
  /\ \E j \in Submitted(t) : results' = [results EXCEPT ![t][j] = ResultOf(futs[t][k])]
  /\ futs' = [futs EXCEPT ![t][k].st = "collected"]
  /\ UNCHANGED <<fn, apiKey, CACHE, pc, req, nCalls, response, served>>

\* One turn of "for f in as_completed(futs)": lines 272-275.
Collect(t, k) ==
  /\ pc[t] = "collect"
  /\ futs[t][k].st = "done"
  /\ results' = [results EXCEPT ![t][k] = ResultOf(futs[t][k])]
  /\ futs' = [futs EXCEPT ![t][k].st = "collected"]
  /\ UNCHANGED <<fn, apiKey, CACHE, pc, req, nCalls, response, served>>

\* a handler that returns at the first completed future
AnyCollected(t) == \E k \in Submitted(t) : futs[t][k].st = "collected"

\* as_completed is exhausted and the with-block has shut the pool down
AllCollected(t) == \A k \in Submitted(t) : futs[t][k].st = "collected"

\* a handler that keeps a report only when none of its sections failed
FinishStoreClean(t) ==
  /\ pc[t] = "collect"
  /\ AllCollected(t)
  /\ CACHE' = IF \E k \in Sections : results[t][k].tag = "error" THEN CACHE
              ELSE CacheSet(CACHE, req[t].cache_key, results[t])
  /\ Respond(t, 200, results[t], FALSE)
  /\ UNCHANGED <<fn, apiKey, req, futs, results, nCalls, served>>

\* Lines 277-278: CACHE[cache_key] = results; return jsonify(results)
Finish(t) ==
  /\ pc[t] = "collect"
  /\ AllCollected(t)
  /\ CACHE' = CacheSet(CACHE, req[t].cache_key, results[t])
  /\ Respond(t, 200, results[t], FALSE)
  /\ UNCHANGED <<fn, apiKey, req, futs, results, nCalls, served>>

\* Spec: one request, followed step by step through the handler and the
\* pool workers.
Next ==
  \E t \in SeqThreads :
    \/ \E route \in Routes, js \in Bodies : served = 0 /\ Receive(t, route, js)
    \/ CallPrimary(t)
    \/ CallRepair(t)
    \/ Submit(t)
    \/ \E k \in Sections : TaskPrimary(t, k)
    \/ \E k \in Sections : TaskRepair(t, k)
    \/ \E k \in Sections : Collect(t, k)
    \/ Finish(t)

Spec == Init /\ [][Next]_vars

(* ---------------------------- request level ----------------------------- *)
\* call_json for section k as one function of the replies to its primary
\* and repair calls: the value returned or the exception raised, and the
\* number of HTTP calls made.
call_json(k, reply1, reply2) ==
  IF ~apiKey THEN [val |-> Exc(k, "nokey"), out |-> "-", calls |-> 0]
  ELSE IF ~DsChatReturns(reply1) THEN [val |-> Exc(k, "llm"), out |-> "-", calls |-> 1]
  ELSE IF Parsable(reply1) THEN [val |-> Json(k), out |-> reply1, calls |-> 1]
  ELSE IF RepairReturns(reply2) THEN [val |-> Json(k), out |-> reply1, calls |-> 2]
  ELSE [val |-> Exc(k, "repair"), out |-> reply1, calls |-> 2]

\* a task that was never submitted
NotRun == [val |-> Null, out |-> "-", calls |-> 0]

\* SpecReq draws the replies from ReqReplies: at the level of whole requests
\* a call_json matters by whether it returned or raised, and by its calls
ReqReplies == {"json", "http_error"}

CallJsonOutcomes(k) == {call_json(k, r1, r2) : r1, r2 \in ReqReplies}

\* the handler's own call_json gets every reply of the service
FirstCallOutcomes == {call_json("parsed", r1, r2) : r1, r2 \in LLMReplies}

RECURSIVE SumCalls(_, _)
SumCalls(outs, S) ==
  IF S = {} THEN 0
  ELSE LET k == CHOOSE x \in S : TRUE IN outs[k].calls + SumCalls(outs, S \ {k})

\* a handler whose except clause stores the error it returns
RequestFailsStored(t, first) ==
  /\ Fail(t, first.val.msg)
  /\ nCalls' = [nCalls EXCEPT ![t] = first.calls]
  /\ CACHE' = CacheSet(CACHE, req[t].cache_key, ErrorEntry(Exc("request", first.val.msg)))
  /\ UNCHANGED <<results, futs>>

\* the first call_json of a handler raised: the except clause of the handler
\* returns the error with status 500 (lines 111-112, 155-156, 279-280)
RequestFails(t, first) ==
  /\ Fail(t, first.val.msg)
  /\ nCalls' = [nCalls EXCEPT ![t] = first.calls]
  /\ UNCHANGED <<CACHE, results, futs>>

\* Everything a handler does between its cache miss and its store, in one
\* step: the first call_json (lines 215-220 / 108) and, in full_report, the
\* whole pool run of lines 268-275.  None of it reads or writes CACHE.
Generate(t) ==
  /\ pc[t] = "call"
  /\ \E first \in FirstCallOutcomes :
       IF first.val.tag = "exc"
       THEN RequestFails(t, first)
       ELSE IF req[t].route # "full_report"
       THEN /\ FirstCallReturned(t)
            /\ nCalls' = [nCalls EXCEPT ![t] = first.calls]
            /\ UNCHANGED futs
       ELSE LET S == Tasks(req[t].jd_text) IN
            \E o1 \in CallJsonOutcomes("optimized"), o2 \in CallJsonOutcomes("qa"),
               o3 \in CallJsonOutcomes("advice"),
               o4 \in IF "ats" \in S THEN CallJsonOutcomes("ats") ELSE {NotRun} :
              LET outs == [k \in Sections |->
                             IF k = "optimized" THEN o1 ELSE IF k = "qa" THEN o2
                             ELSE IF k = "advice" THEN o3 ELSE o4] IN
              /\ futs' = [futs EXCEPT ![t] = [k \in Sections |->
                     IF k \in S
                     THEN Fut("collected", outs[k].val, outs[k].out, outs[k].calls)
                     ELSE NoFuture]]
              /\ results' = [results EXCEPT ![t] = [k \in ResultKeys |->
                     IF k \in S THEN ResultOf(Fut("done", outs[k].val, "-", 0))
                     ELSE InitialResults(first.val)[k]]]
              /\ nCalls' = [nCalls EXCEPT ![t] = first.calls + SumCalls(outs, S)]
              /\ pc' = [pc EXCEPT ![t] = "collect"]
              /\ UNCHANGED <<CACHE, response>>
  /\ UNCHANGED <<fn, apiKey, req, served>>

\* SpecReq: up to MaxRequests requests, one after the other, each one
\* lookup, generation, store.
NextReq ==
  \E t \in SeqThreads :
    \/ \E route \in Routes, js \in Bodies :
         served < MaxRequests /\ Receive(t, route, js)
    \/ Generate(t)
    \/ Finish(t)

SpecReq == Init /\ [][NextReq]_vars

(* ---------------------------- concurrent requests ----------------------- *)
\* Lines 203-212 / 94-98 on a request thread: read and normalise the body
\* and compute the key; the cache has not been touched yet.
Accept(t, route, js) ==
  /\ pc[t] \in {"idle", "done"}
  /\ served' = served + 1
  /\ req' = [req EXCEPT ![t] = NewRequest(route, js)]
  /\ futs' = [futs EXCEPT ![t] = [k \in Sections |-> NoFuture]]
  /\ results' = [results EXCEPT ![t] = NoResults]
  /\ nCalls' = [nCalls EXCEPT ![t] = 0]
  /\ response' = [response EXCEPT ![t] = NoResponse]
  /\ pc' = [pc EXCEPT ![t] = "lookup"]
  /\ UNCHANGED <<fn, apiKey, CACHE>>

\* "key in CACHE" of lines 213 / 99: one dict operation, atomic under the
\* interpreter lock
CacheLookup(t) ==
  /\ pc[t] = "lookup"
  /\ pc' = [pc EXCEPT ![t] = IF CacheHit(CACHE, req[t].cache_key) THEN "hit" ELSE "call"]
  /\ UNCHANGED <<fn, apiKey, CACHE, req, futs, results, nCalls, response, served>>

\* "CACHE[key]" of lines 213 / 99, a second dict operation after the test:
\* a key that is gone by now raises KeyError into the except clause
CacheRead(t) ==
  /\ pc[t] = "hit"
  /\ IF req[t].cache_key \in DOMAIN CACHE
     THEN Respond(t, 200, CACHE[req[t].cache_key], TRUE)
     ELSE Fail(t, "keyerror")
  /\ UNCHANGED <<fn, apiKey, CACHE, req, futs, results, nCalls, served>>

\* SpecConc: one request on each request thread, all in flight together;
\* the steps of a thread are its dict operations on CACHE (test, read,
\* store) and, between them, its generation.
NextConc ==
  \E t \in Threads :
    \/ \E route \in Routes, js \in Bodies :
         pc[t] = "idle" /\ Accept(t, route, js)
    \/ CacheLookup(t)
    \/ CacheRead(t)
    \/ Generate(t)
    \/ Finish(t)

SpecConc == Init /\ [][NextConc]_vars

(* ---------------------------- functions on their own -------------------- *)
\* load_json_strict and ds_chat applied to one input each, outside a request
InitFn ==
  /\ apiKey \in BOOLEAN
  /\ CACHE = <<>>
  /\ pc = [t \in Threads |-> "idle"]
  /\ req = [t \in Threads |-> NoRequest]
  /\ futs = [t \in Threads |-> [k \in Sections |-> NoFuture]]
  /\ results = [t \in Threads |-> NoResults]
  /\ nCalls = [t \in Threads |-> 0]
  /\ response = [t \in Threads |-> NoResponse]
  /\ served = 0
  /\ \/ \E a \in TextInputs : fn = FnCall("text", a, <<>>)
     \/ \E r \in HttpReplies : fn = FnCall("reply", r, <<>>)

ApplyLoadJson ==
  /\ fn.op = "text"
  /\ fn' = FnCall("load_json_strict", fn.arg, load_json_strict(TextOfInput(fn.arg)))
  /\ UNCHANGED <<apiKey, CACHE, pc, req, futs, results, nCalls, response, served>>

ApplyDsChat ==
  /\ fn.op = "reply"
  /\ fn' = FnCall("ds_chat", fn.arg, ds_chat(apiKey, fn.arg))
  /\ UNCHANGED <<apiKey, CACHE, pc, req, futs, results, nCalls, response, served>>

NextFn == ApplyLoadJson \/ ApplyDsChat

SpecFn == InitFn /\ [][NextFn]_vars

(* ---------------------------- level anchor ------------------------------ *)
\* the level full_report hands to the interview task: "level":"Senior"
QaLevel == "Senior"

LevelRank(l) ==
  CASE l = "Junior" -> 1 [] l = "Middle" -> 2 [] l = "Senior" -> 3 [] l = "Executive" -> 4

\* Pre-analysis, minimum level anchor: an executive-tier word forces
\* "Executive"; a text without any signal is "Junior".
minimum_level_anchor(text) ==
  IF \E i \in 1..Len(text) : text[i] = "V" THEN "Executive" ELSE "Junior"

\* the capacity of the Result Cache: any capacity below the number of
\* distinct requests of a run
CacheCapacity == MaxRequests - 1

(* ---------------------------- properties -------------------------------- *)
\* a full_report request that missed the cache and has returned
Finished(t) == pc[t] = "done" /\ req[t].route = "full_report" /\ ~response[t].cached

\* resume text that is not empty after normalisation
ValidInput(t) == req[t].resume_text # <<>>

\* C1: no fan-out task (optimized, qa, advice, ats) is submitted to the pool
\* before the initial resume-parse call has returned.
C1_NoFanOutBeforeParse ==
  \A t \in Threads :
    Submitted(t) # {} => results[t]["parsed"].tag = "json" /\ pc[t] \notin {"idle", "call", "call_repair"}

C1_Witness ==
  \E t \in Threads : pc[t] = "submit" /\ futs[t]["optimized"].st = "primary"

\* C2: when the call of a section fails, its entry in the report is an error
\* entry made from its own exception, and every other submitted section has
\* the result of its own task, payload or error; the request still returns
\* the report.
C2_FailureIsolated ==
  \A t \in Threads :
    /\ \A k \in Sections :
         futs[t][k].st = "collected" =>
           /\ results[t][k].by = k
           /\ results[t][k].tag = (IF futs[t][k].val.tag = "exc" THEN "error" ELSE "json")
           /\ results[t][k].msg = futs[t][k].val.msg
    /\ (Finished(t) /\ results[t]["parsed"].tag = "json") =>
         /\ response[t].code = 200
         /\ \A k \in Tasks(req[t].jd_text) :
              /\ futs[t][k].st = "collected"
              /\ response[t].body[k] = ResultOf(futs[t][k])

C2_Witness ==
  \E t \in Threads :
    /\ Finished(t) /\ response[t].code = 200
    /\ response[t].body["qa"].tag = "error"
    /\ response[t].body["optimized"].tag = "json"
    /\ response[t].body["advice"].tag = "error"
    /\ response[t].body["advice"].msg # response[t].body["qa"].msg

\* C3: with the API key configured, a request with valid input never ends as
\* a whole-request failure: it always returns a report, whatever the
\* generation service does.
C3_NoWholeRequestFailure ==
  \A t \in Threads :
    (apiKey /\ pc[t] = "done" /\ req[t].route = "full_report" /\ ValidInput(t)) =>
      response[t].code = 200

\* C4: with the API key configured, the fan-out sections of a request with
\* valid input are dispatched even when the initial parse failed.
C4_FanOutDespiteParseFailure ==
  \A t \in Threads :
    (apiKey /\ Finished(t) /\ ValidInput(t)) => Submitted(t) = Tasks(req[t].jd_text)

\* a step of the handler of thread t or of one of its pool workers
StepOf(t) ==
  \/ CallPrimary(t) \/ CallRepair(t) \/ Submit(t) \/ Finish(t)
  \/ \E k \in Sections : TaskPrimary(t, k) \/ TaskRepair(t, k) \/ Collect(t, k)

\* C5: when a request returns its report, every section it dispatched has
\* been collected once and has exactly one terminal entry (payload or error)
\* in the report; a section that was not dispatched has the empty entry; no
\* request returns while a dispatched section is unresolved, and a request
\* in flight is never stuck (it can always take its next step, and the
\* steps of one request are finitely many).
C5_EverySectionOneOutcome ==
  \A t \in Threads :
    /\ pc[t] = "done" => \A k \in Submitted(t) : futs[t][k].st = "collected"
    /\ pc[t] \notin {"idle", "done"} => ENABLED StepOf(t)
    /\ (Finished(t) /\ response[t].code = 200) =>
         /\ Submitted(t) = Tasks(req[t].jd_text)
         /\ \A k \in Sections :
              IF k \in Submitted(t)
              THEN response[t].body[k].tag \in {"json", "error"}
              ELSE response[t].body[k] = Null
         /\ response[t].body["parsed"].tag = "json"

C5_Witness ==
  \E t \in Threads :
    /\ Finished(t) /\ response[t].code = 200
    /\ Submitted(t) = Sections
    /\ response[t].body["ats"].tag = "error"
    /\ response[t].body["qa"].tag = "json"

\* C6: a request has a response exactly when it has finished, and at that
\* point no task of it is running or waiting to be collected: the response
\* comes after every section outcome.
C6_CompletionIsLast ==
  \A t \in Threads :
    /\ (pc[t] = "done") <=> (response[t].code # 0)
    /\ pc[t] = "done" => \A k \in Sections : futs[t][k].st \in {"none", "collected"}
    /\ (Finished(t) /\ response[t].code = 200) => response[t].body = results[t]

C6_Witness ==
  \E t \in Threads :
    /\ Finished(t) /\ response[t].code = 200
    /\ \A k \in Tasks(req[t].jd_text) : futs[t][k].st = "collected"
    /\ nCalls[t] > 4

\* C7: once a request has been stored in CACHE, a request with the same
\* normalised inputs is answered with the stored value and makes no call to
\* the generation service.
C7_ResubmitServedFromCache ==
  \A t \in Threads :
    (pc[t] # "idle" /\ req[t].cache_key \in DOMAIN CACHE) =>
      /\ pc[t] = "done"
      /\ response[t].code = 200
      /\ response[t].body = CACHE[req[t].cache_key]
      /\ response[t].cached => nCalls[t] = 0
      /\ ~response[t].cached => nCalls[t] > 0

C7_Witness ==
  \E t \in Threads :
    /\ pc[t] = "done" /\ response[t].cached /\ served = 2
    /\ req[t].route = "full_report"
    /\ response[t].body["qa"].tag = "error"

\* C8: a full_report request whose resume text is missing or empty makes no
\* call to the generation service and is answered with a validation error.
C8_ShortResumeRejected ==
  \A t \in Threads :
    (req[t].route = "full_report" /\ ~ValidInput(t) /\ pc[t] # "idle") =>
      /\ nCalls[t] = 0
      /\ Submitted(t) = {}
      /\ pc[t] = "done" => response[t].code \notin {0, 200}

\* C9: the level a finished report works with is never below the minimum
\* level anchor of the request's resume text.
C9_LevelNotBelowAnchor ==
  \A t \in Threads :
    (Finished(t) /\ response[t].code = 200) =>
      LevelRank(QaLevel) >= LevelRank(minimum_level_anchor(req[t].resume_text))

\* C10: the number of entries CACHE holds never exceeds the capacity.
C10_CacheBounded == Cardinality(DOMAIN CACHE) <= CacheCapacity

\* a complete value for a key: the parsed resume for parse_resume, for
\* full_report a report with the parsed resume, one entry of its own for
\* every task of the key and the empty entry elsewhere
WholeEntry(key, value) ==
  IF key.route # "full_report" THEN value = Json("parsed")
  ELSE /\ DOMAIN value = ResultKeys
       /\ value["parsed"] = Json("parsed")
       /\ \A k \in Sections :
            IF k \in Tasks(key.jd_text)
            THEN value[k].tag \in {"json", "error"} /\ value[k].by = k
            ELSE value[k] = Null

TaskCalls(t) ==
  futs[t]["optimized"].calls + futs[t]["qa"].calls + futs[t]["advice"].calls
    + futs[t]["ats"].calls

FirstCalls(t) == nCalls[t] - TaskCalls(t)

\* C12: a call_json makes at most two HTTP calls.  The second one is the
\* repair call: it is made exactly when the primary call returned a text that
\* does not parse, and after it the section is resolved (payload or error),
\* with no further repair and no retry of the primary call.
C12_AtMostTwoCalls ==
  \A t \in Threads :
    /\ FirstCalls(t) \in 0..2
    /\ pc[t] = "call" => FirstCalls(t) = 0
    /\ pc[t] = "call_repair" => FirstCalls(t) = 1
    /\ \A k \in Sections :
         LET f == futs[t][k]
             resolved == f.st \in {"done", "collected"}
         IN /\ f.calls \in 0..2
            /\ f.st \in {"none", "primary"} => f.calls = 0
            /\ f.st = "repair" => f.calls = 1 /\ f.out \in LLMTexts /\ ~Parsable(f.out)
            /\ f.calls = 2 => resolved /\ f.out \in LLMTexts /\ ~Parsable(f.out)
            /\ (resolved /\ f.out \in LLMTexts /\ ~Parsable(f.out)) => f.calls = 2
            /\ (resolved /\ f.out \in LLMTexts /\ Parsable(f.out)) =>
                 f.calls = 1 /\ f.val = Json(k)
            /\ (resolved /\ f.out \notin LLMTexts) => f.calls <= 1 /\ f.val.tag # "json"

C12_Witness ==
  \E t \in Threads :
    /\ futs[t]["qa"].st = "done" /\ futs[t]["qa"].calls = 2
    /\ futs[t]["qa"].val = Exc("qa", "repair")
    /\ futs[t]["advice"].calls = 2 /\ futs[t]["advice"].val = Json("advice")
    /\ futs[t]["optimized"].calls = 1
    /\ FirstCalls(t) = 2

\* C13: a call_json whose primary text did not parse and whose repair call
\* failed as well ends with a fallback object, not with an exception.
C13_FallbackInsteadOfRaise ==
  \A t \in Threads :
    /\ \A k \in Sections :
         (futs[t][k].calls = 2 /\ futs[t][k].st \in {"done", "collected"}) =>
            futs[t][k].val.tag = "json"
    /\ (pc[t] = "done" /\ ~response[t].cached /\ FirstCalls(t) = 2) => response[t].code = 200

\* C15: task_ats is handed to the pool exactly when the normalised job
\* description is not empty.  Without one it is never submitted, makes no
\* call, and its entry stays the empty one in results and in the report;
\* with one it is submitted once, after the three other tasks, and the
\* report carries its payload or its error.
C15_AtsIffJobDescription ==
  \A t \in Threads :
    /\ req[t].jd_text = <<>> =>
         /\ futs[t]["ats"] = NoFuture
         /\ results[t]["ats"] = Null
         /\ (Finished(t) /\ response[t].code = 200) => response[t].body["ats"] = Null
    /\ req[t].jd_text # <<>> =>
         /\ pc[t] = "collect" => futs[t]["ats"].st # "none"
         /\ futs[t]["ats"].st # "none" => {"optimized", "qa", "advice"} \subseteq Submitted(t)
         /\ (Finished(t) /\ response[t].code = 200) =>
              /\ futs[t]["ats"].st = "collected"
              /\ response[t].body["ats"].tag \in {"json", "error"}
              /\ response[t].body["ats"].by = "ats"
              /\ futs[t]["ats"].calls >= 1

C15_Witness ==
  \E t \in Threads :
    /\ Finished(t) /\ response[t].code = 200
    /\ req[t].jd_text = <<>>
    /\ response[t].body["ats"] = Null
    /\ response[t].body["qa"].tag = "json"
    /\ nCalls[t] = 4

\* C14: for a well-formed JSON object inside a code fence (an opening fence,
\* with or without "json", and a closing fence) load_json_strict returns the
\* enclosed object, so that call_json needs no repair call.
C14_FencedObjectExtracted ==
  (fn.op = "load_json_strict" /\ fn.arg.open # <<>> /\ WellFormedObject(fn.arg.body)) =>
     fn.ret = json_loads(fn.arg.body)

\* C16: ds_chat returns the content of the response or raises; it raises on
\* every status other than 200 and on every body without a non-empty
\* "choices", and posts at most once (not at all without an API key).
C16_DsChatReturnsOrRaises ==
  fn.op = "ds_chat" =>
    LET r == fn.arg
        o == fn.ret
    IN /\ o.posts <= 1
       /\ (o.posts = 0) <=> ~apiKey
       /\ (~r.arrived \/ r.status # 200) => o.raised
       /\ (~r.isjson \/ "choices" \notin DOMAIN r.data \/ r.data["choices"] = <<>>) => o.raised
       /\ ~o.raised => o.val = r.data["choices"][1]

\* a response with status 500 whose body holds a choice with content: ds_chat
\* has posted once and raised
C16_Witness ==
  /\ fn.op = "ds_chat"
  /\ apiKey
  /\ fn.arg.arrived /\ fn.arg.status = 500 /\ fn.arg.isjson
  /\ fn.arg.data = Choices(<<"json">>)
  /\ fn.ret = DsResult(TRUE, "-", 1)

\* C17: the workers that run section tasks of a request at the same time are
\* never more than the sections of the request: 3 without a job description,
\* 4 with one (and never more than the pool's max_workers).
C17_WorkersWithinSections ==
  \A t \in Threads :
    /\ Running(t) \subseteq Tasks(req[t].jd_text)
    /\ Cardinality(Running(t)) <= max_workers
    /\ req[t].jd_text = <<>> => Cardinality(Running(t)) <= 3
    /\ req[t].jd_text # <<>> => Cardinality(Running(t)) <= 4

C17_Witness ==
  \E t \in Threads :
    /\ req[t].jd_text = <<>>
    /\ Cardinality(Running(t)) = 3
    /\ futs[t]["qa"].st = "repair"
    /\ futs[t]["ats"] = NoFuture

\* C18: a step of a section task changes nothing but its own future (not
\* the request, the report, the cache or another task), and an entry of the
\* report changes only in the request thread's collect loop, which files the
\* outcome of the completed task under that task's own key and leaves the
\* other entries alone, in whatever order the tasks complete.
C18_TasksShareNoState ==
  [][\A t \in Threads : \A k \in Sections :
       /\ (futs'[t][k] # futs[t][k] /\ futs'[t][k].st \in {"repair", "done"}) =>
            /\ results' = results /\ CACHE' = CACHE /\ req' = req /\ pc' = pc
            /\ \A j \in Sections \ {k} : futs'[t][j] = futs[t][j]
       /\ results'[t][k] # results[t][k] =>
            /\ pc[t] = "collect"
            /\ futs[t][k].st = "done" /\ futs'[t][k].st = "collected"
            /\ results'[t][k] = ResultOf(futs[t][k])
            /\ results'[t][k].by = k
            /\ \A j \in ResultKeys \ {k} : results'[t][j] = results[t][j]]_vars

\* advice has completed and been filed first while optimized, submitted
\* first, is still in its repair call
C18_Witness ==
  \E t \in Threads :
    /\ pc[t] = "collect"
    /\ futs[t]["advice"].st = "collected" /\ results[t]["advice"] = ErrorEntry(Exc("advice", "llm"))
    /\ futs[t]["optimized"].st = "repair" /\ results[t]["optimized"] = Null
    /\ futs[t]["qa"].st = "collected" /\ results[t]["qa"] = Json("qa")

\* the single-section endpoints of the model
SingleSection(route) == route \in {"parse_resume", "ats_score"}

\* C19: in a single-section endpoint, the step that ends a request in an
\* error response leaves CACHE as it was, without an entry for the request;
\* CACHE gets an entry of such an endpoint only together with a 200 response
\* whose call_json returned (one or two service calls), and the entry is the
\* returned data; a request identical to one that has just failed misses the
\* cache and goes to the generation service again.
C19_ErrorLeavesCacheUnchanged ==
  [][\A t \in SeqThreads :
       SingleSection(req'[t].route) =>
         /\ (pc[t] # "done" /\ pc'[t] = "done" /\ response'[t].code = 500) =>
              /\ CACHE' = CACHE
              /\ req'[t].cache_key \notin DOMAIN CACHE'
              /\ apiKey => nCalls'[t] >= 1
         /\ CACHE' # CACHE =>
              /\ pc[t] = "call" /\ pc'[t] = "done"
              /\ response'[t] = [code |-> 200, body |-> Json("parsed"), cached |-> FALSE]
              /\ nCalls'[t] \in {1, 2}
              /\ CACHE' = CacheSet(CACHE, req[t].cache_key, Json("parsed"))
         /\ (pc[t] = "done" /\ response[t].code = 500 /\ served' = served + 1
               /\ req'[t] = req[t]) =>
              /\ pc'[t] = "call"
              /\ nCalls'[t] = 0]_vars

\* the second request of a run is to a single-section endpoint and has
\* failed after a service call, and the cache is still empty after it
C19_Witness ==
  /\ served = 2
  /\ req[1].route = "ats_score" /\ req[1].jd_text = <<"j">>
  /\ pc[1] = "done" /\ response[1].code = 500 /\ nCalls[1] = 2
  /\ response[1].body.msg = "repair"
  /\ CACHE = <<>>

\* C20: a full_report request that generated its report has stored it
\* exactly when its initial parse call returned, with the error entries of
\* the sections that failed; when the parse call failed it answers 500 and
\* its key has no entry; a request answered from CACHE gets the stored
\* report, error entries included, and makes no service call.
C20_ReportCachedIffParsed ==
  \A t \in Threads :
    (req[t].route = "full_report" /\ pc[t] = "done") =>
      IF response[t].cached
      THEN /\ nCalls[t] = 0 /\ Submitted(t) = {}
           /\ response[t].code = 200
           /\ response[t].body = CACHE[req[t].cache_key]
           /\ response[t].body["parsed"].tag = "json"
      ELSE IF results[t]["parsed"].tag = "json"
      THEN /\ response[t].code = 200
           /\ req[t].cache_key \in DOMAIN CACHE
           /\ CACHE[req[t].cache_key] = results[t]
           /\ response[t].body = results[t]
           /\ \A k \in Tasks(req[t].jd_text) :
                results[t][k] = ResultOf(futs[t][k]) /\ results[t][k].tag \in {"json", "error"}
      ELSE /\ response[t].code = 500
           /\ req[t].cache_key \notin DOMAIN CACHE
           /\ Submitted(t) = {}

\* a report whose three sections all failed is served from CACHE to the
\* second request
C20_Witness ==
  \E t \in Threads :
    /\ served = 2 /\ req[t].route = "full_report" /\ pc[t] = "done"
    /\ response[t].cached /\ nCalls[t] = 0
    /\ \A k \in {"optimized", "qa", "advice"} : response[t].body[k].tag = "error"
    /\ response[t].body["ats"] = Null

\* the primary call of a call_json raised: ds_chat found no API key, or the
\* service timed out, answered with another status or sent no choices
PrimaryRaised(v) == v.tag = "exc" /\ v.msg \in {"nokey", "llm"}

\* C21: the repair call of a call_json is made only from the point where the
\* primary call has returned a text that did not parse.  When the primary
\* call raises, the call_json ends at once with that exception, no repair
\* call follows, and the caller gets the error: the section's error entry in
\* a task, the 500 response in the handler's own call.
C21_RepairOnlyAfterUnparsableText ==
  [][\A t \in Threads :
       /\ \A k \in Sections :
            LET f == futs[t][k]
                g == futs'[t][k]
            IN /\ (g.calls = 2 /\ f.calls # 2) =>
                    /\ f.st = "repair" /\ f.calls = 1
                    /\ f.out \in LLMTexts /\ ~Parsable(f.out)
                    /\ g.out = f.out
               /\ (f.st = "primary" /\ g.st = "repair") =>
                    g.out \in LLMTexts /\ ~Parsable(g.out) /\ g.calls = 1
               /\ (f.st = "primary" /\ g.st # "primary" /\ g.out \notin LLMTexts) =>
                    /\ g.st = "done" /\ PrimaryRaised(g.val)
                    /\ g.calls = (IF apiKey THEN 1 ELSE 0)
               /\ (f.st \in {"done", "collected"} /\ PrimaryRaised(f.val)) =>
                    /\ g.calls = f.calls /\ g.val = f.val
                    /\ g.st = "collected" => results'[t][k] = ErrorEntry(f.val)
       /\ (pc'[t] = "call_repair" /\ pc[t] # "call_repair") =>
            pc[t] = "call" /\ apiKey /\ nCalls[t] = 0 /\ nCalls'[t] = 1
       /\ (pc[t] \in {"call", "call_repair"} /\ nCalls'[t] = 2) => pc[t] = "call_repair"
       /\ (pc[t] = "call" /\ pc'[t] = "done") =>
            \/ response'[t].code = 200 /\ nCalls'[t] = 1
            \/ /\ response'[t].code = 500
               /\ response'[t].body.tag = "error"
               /\ response'[t].body.msg \in {"nokey", "llm"}
               /\ nCalls'[t] = (IF apiKey THEN 1 ELSE 0)
               /\ CACHE' = CACHE]_vars

\* the primary call of qa has raised and qa is resolved after its one call,
\* while advice, whose primary call returned a text that does not parse, is
\* in its repair call
C21_Witness ==
  \E t \in Threads :
    /\ futs[t]["qa"] = Fut("done", Exc("qa", "llm"), "-", 1)
    /\ futs[t]["advice"] = Fut("repair", Null, "garbage", 1)
    /\ futs[t]["optimized"].calls = 2

====
